---- MODULE Spec2Model ----
(***************************************************************************)
(* A model of the decoration layer of tg/decorators.py (the per-controller *)
(* Decoration registry, template-engine lookup, the hook pipeline and the  *)
(* require protector) and of the error-pages configuration step.           *)
(*                                                                         *)
(* Python values are represented as follows.  Strings are TLA+ strings;    *)
(* None in a string-valued slot is the string None below.  A list is the   *)
(* record [list |-> <<...>>] and None in a list-valued slot is NoneObj, so *)
(* that the two can be compared.  A content type string "m; charset=c" is  *)
(* the record [mime |-> m, charset |-> c]; charset "" means no parameter.  *)
(* A dict is a function whose DOMAIN is the set of keys.                   *)
(***************************************************************************)
EXTENDS Integers, Sequences, FiniteSets, TLC

VARIABLES
    decorated,              \* func -> whether func.decoration exists
    engines,                \* func -> Decoration.engines
    engines_keys,           \* func -> Decoration.engines_keys
    default_engine,         \* func -> Decoration.default_engine
    custom_engines,         \* func -> Decoration.custom_engines
    render_custom_format,   \* func -> Decoration.render_custom_format
    hooks,                  \* func -> Decoration.hooks
    req,                    \* the current request (tg.request)
    resp,                   \* the current response (tg.response)
    flashed,                \* the messages passed to tg.flash in this request
    cfg_hooks,              \* tgl.config['hooks'] (NoKey when absent)
    heap,                   \* list objects of the configuration: id -> contents
    conf,                   \* the configuration dict of the error pages step
    defaults_ids,           \* ids of the lists returned by get_defaults
    regLog,                 \* history: the register_template_engine calls
    ucf,                    \* history: func -> format of a successful use_custom_format in this request
    call                    \* the last operation: name, arguments, outcome

decoVars == <<decorated, engines, engines_keys, default_engine, custom_engines,
              render_custom_format>>
vars == <<decorated, engines, engines_keys, default_engine, custom_engines,
          render_custom_format, hooks, req, resp, flashed, cfg_hooks, heap,
          conf, defaults_ids, regLog, ucf, call>>

None == "<None>"
NoneObj == [none |-> TRUE]
Unset == [unset |-> TRUE]
NoKey == [nokey |-> TRUE]
EmptyDict == [x \in {} |-> None]

PyList(s) == [list |-> s]

\* The controller functions of the model.
Funcs == {"index", "other"}

(***************************************************************************)
(* Content types and the Accept header.                                    *)
(***************************************************************************)

\* The mime types of the model, in Python's string order.
MimeOrder == <<"*/*", "application/json", "image/png", "text/html">>
Mimes == {MimeOrder[i] : i \in DOMAIN MimeOrder}

RECURSIVE Reverse(_)
Reverse(s) == IF s = <<>> THEN <<>> ELSE Append(Reverse(Tail(s)), Head(s))

\* sorted(keys, reverse=True)
SortedReverse(keys) == SelectSeq(Reverse(MimeOrder), LAMBDA m : m \in keys)

\* mime.split('/'): the type and subtype of a mime type of the model.
MimeType(m) ==
    CASE m = "*/*" -> "*"
      [] m = "application/json" -> "application"
      [] m = "image/png" -> "image"
      [] m = "text/html" -> "text"
      [] m = "text/*" -> "text"
      [] OTHER -> m

MimeSubtype(m) ==
    CASE m = "*/*" -> "*"
      [] m = "application/json" -> "json"
      [] m = "image/png" -> "png"
      [] m = "text/html" -> "html"
      [] m = "text/*" -> "*"
      [] OTHER -> "*"

\* A media range of an Accept header; q is in tenths.
Range(m, q) == [type |-> MimeType(m), subtype |-> MimeSubtype(m), q |-> q]

\* header.split(',') parsed by parse_media_range, for the Accept header
\* values of the model.  This and the operators down to best_match follow
\* paste.util.mimeparse, the library lookup_template_engine calls.
ParseHeader(h) ==
    CASE h = "text/*;q=0.5,application/json" ->
             <<Range("text/*", 5), Range("application/json", 10)>>
      [] OTHER -> <<Range(h, 10)>>

RangeMatches(m, r) ==
    /\ (r.type = MimeType(m) \/ r.type = "*" \/ MimeType(m) = "*")
    /\ (r.subtype = MimeSubtype(m) \/ r.subtype = "*" \/ MimeSubtype(m) = "*")

RangeFitness(m, r) ==
    (IF r.type = MimeType(m) THEN 100 ELSE 0)
    + (IF r.subtype = MimeSubtype(m) THEN 10 ELSE 0)

\* fitness_and_quality_parsed(mime_type, parsed_ranges): the fitness and the
\* q of the first range of highest fitness that matches; <<-1, 0>> if none.
RECURSIVE FitnessAndQuality(_, _, _)
FitnessAndQuality(m, ranges, best) ==
    IF ranges = <<>> THEN best
    ELSE LET r == Head(ranges)
             better == RangeMatches(m, r) /\ RangeFitness(m, r) > best[1]
         IN FitnessAndQuality(m, Tail(ranges),
                IF better THEN <<RangeFitness(m, r), r.q>> ELSE best)

FitQ(m, header) == FitnessAndQuality(m, ParseHeader(header), <<-1, 0>>)

\* Whether weight a is below weight b: tuples ((fitness, q), -n) compared as
\* Python compares them.
WeightLess(a, b) ==
    \/ a[1] < b[1]
    \/ a[1] = b[1] /\ a[2] < b[2]
    \/ a[1] = b[1] /\ a[2] = b[2] /\ a[3] < b[3]

\* best_match(supported, header): the supported type of maximal
\* ((fitness, q), -position), or '' when its q is 0 or nothing is supported.
best_match(supported, header) ==
    IF supported = <<>> THEN ""
    ELSE LET W(n) == <<FitQ(supported[n], header)[1],
                       FitQ(supported[n], header)[2], 0 - n>>
             best == CHOOSE n \in DOMAIN supported :
                        \A k \in DOMAIN supported : ~WeightLess(W(n), W(k))
         IN IF W(best)[2] # 0 THEN supported[best] ELSE ""

(***************************************************************************)
(* Decoration: the per-controller registry.                                *)
(***************************************************************************)

\* d[k] = v for a dict d.
Put(d, k, v) == [x \in DOMAIN d \cup {k} |-> IF x = k THEN v ELSE d[x]]

\* Decoration.get_decoration(func) for the function a decorator is applied
\* to: func.decoration is created when missing.  The fields of a new Decoration are the empty ones
\* func has in Init, so creating it is setting the flag.
get_decoration(f) == decorated' = [decorated EXCEPT ![f] = TRUE]

\* A registration that keeps an entry already present for the type.
register_template_engine_keep(f, content_type, engine, template, exclude_names) ==
    LET ct == IF content_type = None THEN "*/*" ELSE content_type
        new == IF ct \in DOMAIN engines[f] THEN engines[f]
               ELSE Put(engines[f], ct, <<engine, template, exclude_names>>)
    IN /\ engines' = [engines EXCEPT ![f] = new]
       /\ default_engine' = [default_engine EXCEPT ![f] =
              IF Cardinality(DOMAIN new) = 1 THEN ct ELSE None]
       /\ engines_keys' = [engines_keys EXCEPT ![f] = SortedReverse(DOMAIN new)]
       /\ UNCHANGED <<custom_engines, render_custom_format>>

\* Decoration.register_template_engine
register_template_engine(f, content_type, engine, template, exclude_names) ==
    LET ct == IF content_type = None THEN "*/*" ELSE content_type
        new == Put(engines[f], ct, <<engine, template, exclude_names>>)
    IN /\ engines' = [engines EXCEPT ![f] = new]
       /\ default_engine' = [default_engine EXCEPT ![f] =
              IF Cardinality(DOMAIN new) = 1 THEN ct ELSE None]
       /\ engines_keys' = [engines_keys EXCEPT ![f] = SortedReverse(DOMAIN new)]
       /\ UNCHANGED <<custom_engines, render_custom_format>>

\* Decoration.register_custom_template_engine
register_custom_template_engine(f, custom_format, content_type, engine, template, exclude_names) ==
    LET ct == IF content_type = None THEN "*/*" ELSE content_type
    IN /\ custom_engines' = [custom_engines EXCEPT ![f] =
              Put(@, custom_format, <<ct, engine, template, exclude_names>>)]
       /\ UNCHANGED <<engines, default_engine, engines_keys, render_custom_format>>

\* config['renderers'] and config['default_renderer'] of the application.
Renderers == {"json", "genshi"}
DefaultRenderer == "genshi"

\* The template arguments of the model, and template.split(':', 1) of each.
HasColon(t) == t \in {"genshi:index", "genshi:alt"}
SplitColon(t) ==
    CASE t = "genshi:index" -> <<"genshi", "index">>
      [] t = "genshi:alt" -> <<"genshi", "alt">>
      [] OTHER -> <<t>>

InSeq(x, s) == \E i \in DOMAIN s : s[i] = x

\* expose.__init__: the attributes of the expose object.
expose_init(template, content_type, exclude_names, custom_format) ==
    LET excl == IF exclude_names = NoneObj THEN <<>> ELSE exclude_names.list
        et == IF template \in Renderers THEN <<template, "">>
              ELSE IF HasColon(template) THEN SplitColon(template)
              ELSE IF template # "" THEN <<DefaultRenderer, template>>
              ELSE <<None, None>>
        ct == IF content_type = None
              THEN (IF et[1] = "json" THEN "application/json" ELSE "text/html")
              ELSE content_type
        excl2 == IF (et[1] = "json" \/ et[1] = "amf") /\ ~InSeq("tmpl_context", excl)
                 THEN Append(excl, "tmpl_context") ELSE excl
    IN [engine |-> et[1], template |-> et[2], content_type |-> ct,
        exclude_names |-> PyList(excl2), custom_format |-> custom_format]

\* expose.__call__(func)
expose_call(e, f) ==
    /\ get_decoration(f)
    /\ IF e.custom_format # None
       THEN register_custom_template_engine(f, e.custom_format, e.content_type,
                e.engine, e.template, e.exclude_names)
       ELSE register_template_engine(f, e.content_type, e.engine, e.template,
                e.exclude_names)

(***************************************************************************)
(* Template engine lookup.                                                 *)
(***************************************************************************)

\* The types that get a charset: content_type.startswith('text') or one of
\* application/xhtml+xml, application/xml, application/json.
TakesCharset(m) == MimeType(m) = "text" \/
                   m \in {"application/xhtml+xml", "application/xml", "application/json"}

PlainType(m) == [mime |-> m, charset |-> ""]

WithCharset(m) ==
    IF TakesCharset(m) THEN [mime |-> m, charset |-> "utf-8"] ELSE PlainType(m)

\* The Accept header alone, whatever request.response_type.
accept_types_header_only(f) == IF req.accept = None THEN "*/*" ELSE req.accept

\* lookup_template_engine, the types to match: request.response_type when
\* it is a registered type, else the Accept header.
accept_types(f) ==
    IF req.response_type # None /\ req.response_type \in DOMAIN engines[f]
    THEN req.response_type
    ELSE (IF req.accept = None THEN "*/*" ELSE req.accept)

\* lookup_template_engine, the content type when no custom format is active:
\* the default engine, the best match, or text/html; a Content-Type header
\* of the response overrides it.
matched_type(f) ==
    LET matched == IF default_engine[f] # None THEN default_engine[f]
                   ELSE IF DOMAIN engines[f] # {}
                        THEN best_match(engines_keys[f], accept_types(f))
                        ELSE "text/html"
    IN IF resp.content_type # NoKey THEN resp.content_type.mime ELSE matched

\* lookup_template_engine, engine, template and exclude_names of a content
\* type: the request's template override, else the registered entry.
engine_of(f, ct) ==
    LET om == req.override_mapping
    IN IF om # Unset /\ f \in DOMAIN om /\ ct \in DOMAIN om[f] THEN om[f][ct]
       ELSE IF ct \in DOMAIN engines[f] THEN engines[f][ct]
       ELSE <<None, None, NoneObj>>

\* lookup_template_engine, the custom format in force: the request's, else
\* the decoration's.
active_custom_format(f, rcf) ==
    IF rcf # Unset /\ f \in DOMAIN rcf THEN rcf[f] ELSE render_custom_format[f]

\* Decoration.lookup_template_engine for the controller function f.
lookup_template_engine(f) ==
    LET fmt == active_custom_format(f, req.render_custom_format)
        ct == matched_type(f)
        chosen == IF fmt # None THEN custom_engines[f][fmt]
                  ELSE <<ct, engine_of(f, ct)[1], engine_of(f, ct)[2], engine_of(f, ct)[3]>>
    IN <<WithCharset(chosen[1]), chosen[2], chosen[3], chosen[4]>>

(***************************************************************************)
(* Request-time operations on the registry.                                *)
(***************************************************************************)

\* The record kept of the last operation.
Called(op, f, arg, exc, ret) == [op |-> op, f |-> f, arg |-> arg, exc |-> exc, ret |-> ret]

NoFormats == [f \in Funcs |-> None]

\* A dict attribute of the request, created as {} when unset: the
\* try / except AttributeError idiom.
OrEmpty(d) == IF d = Unset THEN EmptyDict ELSE d

\* The custom format kept on the decoration, for every request to come,
\* instead of on the request.
use_custom_format_on_decoration(f, custom_format) ==
    /\ UNCHANGED <<engines, engines_keys, default_engine, custom_engines, req, decorated>>
    /\ IF ~decorated[f] \/ custom_format \notin DOMAIN custom_engines[f]
       THEN /\ call' = Called("use_custom_format", f, custom_format, "ValueError", None)
            /\ UNCHANGED <<render_custom_format, ucf>>
       ELSE /\ render_custom_format' = [render_custom_format EXCEPT ![f] = custom_format]
            /\ ucf' = [ucf EXCEPT ![f] = custom_format]
            /\ call' = Called("use_custom_format", f, custom_format, None, None)

\* The format stored without checking that it is registered.
use_custom_format_unchecked(f, custom_format) ==
    /\ UNCHANGED decoVars
    /\ req' = [req EXCEPT !.render_custom_format = Put(OrEmpty(@), f, custom_format)]
    /\ ucf' = [ucf EXCEPT ![f] = custom_format]
    /\ call' = Called("use_custom_format", f, custom_format, None, None)

\* use_custom_format(controller, custom_format) for a bound method of f
\* (the function reads controller.im_func).  get_decoration finds the
\* decoration of f through the method; when f has none, it tries to set one
\* on the method object, which raises AttributeError: a method object takes
\* no attributes.
use_custom_format(f, custom_format) ==
    /\ UNCHANGED decoVars
    /\ IF ~decorated[f]
       THEN /\ call' = Called("use_custom_format", f, custom_format, "AttributeError", None)
            /\ UNCHANGED <<req, ucf>>
       ELSE IF custom_format \notin DOMAIN custom_engines[f]
       THEN /\ call' = Called("use_custom_format", f, custom_format, "ValueError", None)
            /\ UNCHANGED <<req, ucf>>
       ELSE /\ req' = [req EXCEPT !.render_custom_format = Put(OrEmpty(@), f, custom_format)]
            /\ ucf' = [ucf EXCEPT ![f] = custom_format]
            /\ call' = Called("use_custom_format", f, custom_format, None, None)

\* override_template(controller, template) for a bound method of f: every
\* registered content type gets [engine, template, exclude_names].
override_template(f, template) ==
    LET tmpl == SplitColon(template)
        old == OrEmpty(req.override_mapping)
        mine == IF f \in DOMAIN old THEN old[f] ELSE EmptyDict
        upd == [ct \in DOMAIN mine \cup DOMAIN engines[f] |->
                   IF ct \in DOMAIN engines[f]
                   THEN <<tmpl[1], tmpl[2], engines[f][ct][3]>>
                   ELSE mine[ct]]
    IN IF ~decorated[f] \/ DOMAIN engines[f] = {}
       THEN UNCHANGED req
       ELSE req' = [req EXCEPT !.override_mapping = Put(old, f, upd)]

\* A request as the dispatcher hands it over: no mapping attribute set.
FreshRequest(response_type, accept) ==
    [response_type |-> response_type, accept |-> accept,
     render_custom_format |-> Unset, override_mapping |-> Unset,
     identity |-> NoKey]

FreshResponse == [content_type |-> NoKey, status |-> 200]

\* Bounds of the registry model.
MaxEngines == 3
MaxReg == 3

TotalEntries(eng, cust) ==
    LET n(f) == Cardinality(DOMAIN eng[f]) + Cardinality(DOMAIN cust[f])
    IN n("index") + n("other")

\* The decorator uses of the model: @expose(template, content_type,
\* custom_format=...).
ExposeUses ==
    {<<"genshi:index", None, None>>,
     <<"json", None, None>>,
     <<"", "*/*", None>>,
     <<"json", None, "special">>,
     <<"genshi:index", "image/png", "special">>}

\* The requests of the model: request.response_type and the Accept header.
Requests ==
    {<<None, None>>, <<None, "text/html">>, <<None, "image/png">>,
     <<None, "text/*;q=0.5,application/json">>,
     <<"application/json", "text/html">>}

OverrideTemplates == {"genshi:alt"}
ContentTypeHeaders == {[mime |-> "application/json", charset |-> "utf-8"]}

otherVars == <<hooks, cfg_hooks, heap, conf, defaults_ids, flashed>>

\* @expose(template, content_type, custom_format=...) applied to f.
Expose(f, template, content_type, custom_format) ==
    /\ expose_call(expose_init(template, content_type, NoneObj, custom_format), f)
    /\ TotalEntries(engines', custom_engines') <= MaxEngines
    /\ call' = Called("expose", f, None, None, None)
    /\ UNCHANGED <<req, resp, ucf, regLog, otherVars>>

\* A new request arrives: the request and response objects are fresh.
NewRequest(response_type, accept) ==
    /\ req' = FreshRequest(response_type, accept)
    /\ resp' = FreshResponse
    /\ ucf' = NoFormats
    /\ call' = Called("request", None, None, None, None)
    /\ UNCHANGED <<decoVars, regLog, otherVars>>

\* The controller sets response.headers['Content-Type'].
SetContentType(v) ==
    /\ resp' = [resp EXCEPT !.content_type = v]
    /\ call' = Called("set_content_type", None, None, None, None)
    /\ UNCHANGED <<decoVars, req, ucf, regLog, otherVars>>

UseCustomFormat(f, custom_format) ==
    /\ use_custom_format(f, custom_format)
    /\ UNCHANGED <<resp, regLog, otherVars>>

OverrideTemplate(f, template) ==
    /\ override_template(f, template)
    /\ call' = Called("override_template", f, None, None, None)
    /\ UNCHANGED <<decoVars, resp, ucf, regLog, otherVars>>

\* The dispatcher looks up the engine of the decorated controller f.
Lookup(f) ==
    /\ decorated[f]
    /\ call' = Called("lookup_template_engine", f, None, None, lookup_template_engine(f))
    /\ UNCHANGED <<decoVars, req, resp, ucf, regLog, otherVars>>

\* The keys of Decoration.hooks.
HookNames == {"before_validate", "before_call", "before_render", "after_render"}

\* ErrorPagesConfigurationStep.get_defaults()['errorpage.status_codes']: a
\* new list on every call.
get_defaults == <<403, 404>>

EmptyRegistry == [f \in Funcs |-> EmptyDict]

InitRegistry ==
    /\ decorated = [f \in Funcs |-> FALSE]
    /\ engines = EmptyRegistry
    /\ engines_keys = [f \in Funcs |-> <<>>]
    /\ default_engine = [f \in Funcs |-> None]
    /\ custom_engines = EmptyRegistry
    /\ render_custom_format = [f \in Funcs |-> None]
    /\ hooks = [f \in Funcs |-> [h \in HookNames |-> <<>>]]
    /\ regLog = <<>>

Init ==
    /\ InitRegistry
    /\ req = FreshRequest(None, None)
    /\ resp = FreshResponse
    /\ flashed = <<>>
    /\ cfg_hooks = NoKey
    /\ heap = <<get_defaults>>
    /\ conf = [auth_backend |-> None, status_codes |-> 1]
    /\ defaults_ids = {1}
    /\ ucf = NoFormats
    /\ call = Called("init", None, None, None, None)

NextLookup ==
    \/ \E f \in Funcs, u \in ExposeUses : Expose(f, u[1], u[2], u[3])
    \/ \E r \in Requests : NewRequest(r[1], r[2])
    \/ \E v \in ContentTypeHeaders : SetContentType(v)
    \/ \E f \in Funcs, cf \in {"special", "missing"} : UseCustomFormat(f, cf)
    \/ \E f \in Funcs, t \in OverrideTemplates : OverrideTemplate(f, t)
    \/ \E f \in Funcs : Lookup(f)

SpecLookup == Init /\ [][NextLookup]_vars

(***************************************************************************)
(* Direct registrations, with their history.                               *)
(***************************************************************************)

\* The arguments of the direct registrations of the model.
RegisterTypes == {None, "*/*", "text/html", "application/json"}
RegisterEntries == {<<"genshi", "index", PyList(<<>>)>>,
                    <<"json", "", PyList(<<"tmpl_context">>)>>}

\* decoration.register_template_engine(content_type, engine, template,
\* exclude_names) on the decoration of f.
RegisterTemplateEngine(f, content_type, entry) ==
    /\ Len(regLog) < MaxReg
    /\ get_decoration(f)
    /\ register_template_engine(f, content_type, entry[1], entry[2], entry[3])
    /\ regLog' = Append(regLog, [f |-> f, content_type |-> content_type, entry |-> entry])
    /\ call' = Called("register_template_engine", f, None, None, None)
    /\ UNCHANGED <<req, resp, ucf, otherVars>>

\* decoration.register_custom_template_engine(custom_format, ...) on the
\* decoration of f.
RegisterCustomTemplateEngine(f, custom_format, content_type, entry) ==
    /\ get_decoration(f)
    /\ register_custom_template_engine(f, custom_format, content_type, entry[1], entry[2], entry[3])
    /\ call' = Called("register_custom_template_engine", f, None, None, None)
    /\ UNCHANGED <<req, resp, ucf, regLog, otherVars>>

NextRegister ==
    \/ \E f \in Funcs, ct \in RegisterTypes, e \in RegisterEntries :
          RegisterTemplateEngine(f, ct, e)
    \/ \E f \in Funcs :
          RegisterCustomTemplateEngine(f, "special", None, <<"json", "", PyList(<<>>)>>)

SpecRegister == Init /\ [][NextRegister]_vars

(***************************************************************************)
(* Properties of the registry.                                             *)
(***************************************************************************)

\* The key a registration's content type is stored under.
StoredUnder(content_type) == IF content_type = None THEN "*/*" ELSE content_type

\* The positions in the history of the registrations on f under key k.
RegsOf(f, k) ==
    {i \in DOMAIN regLog : regLog[i].f = f /\ StoredUnder(regLog[i].content_type) = k}

LastReg(f, k) == regLog[CHOOSE i \in RegsOf(f, k) : \A j \in RegsOf(f, k) : j <= i]

C3_EnginesMatchHistory ==
    \A f \in Funcs :
        /\ DOMAIN engines[f] = {k \in Mimes : RegsOf(f, k) # {}}
        /\ \A k \in DOMAIN engines[f] : engines[f][k] = LastReg(f, k).entry

C3_CustomUntouched ==
    call'.op = "register_template_engine" => custom_engines' = custom_engines

\* C3: after any sequence of register_template_engine calls, engines holds
\* exactly one entry per content type registered (None counting as '*/*',
\* the key it is stored under), the entry is that of the most recent
\* registration for the type, and no call changes custom_engines.
C3_OneEnginePerContentType ==
    []C3_EnginesMatchHistory /\ [][C3_CustomUntouched]_vars

\* C3 witness: a type registered twice with different entries, a
\* registration with content type None, and a custom engine present.
C3_Witness ==
    /\ call.op = "register_template_engine"
    /\ \E i, j \in DOMAIN regLog :
          /\ i < j
          /\ regLog[i].f = regLog[j].f
          /\ regLog[i].content_type = regLog[j].content_type
          /\ regLog[i].entry # regLog[j].entry
          /\ DOMAIN custom_engines[regLog[i].f] # {}
    /\ \E i \in DOMAIN regLog : regLog[i].content_type = None

(***************************************************************************)
(* Properties of the lookup.                                               *)
(***************************************************************************)

Looked == call.op = "lookup_template_engine"

\* No custom format is active for f, the response has no Content-Type
\* header and the request holds no template override for f.
PlainLookup(f) ==
    /\ active_custom_format(f, req.render_custom_format) = None
    /\ resp.content_type = NoKey
    /\ req.override_mapping = Unset \/ f \notin DOMAIN req.override_mapping

\* What the lookup matches against: request.response_type if registered,
\* else the Accept header, '*/*' by default.
MatchSource(f) ==
    IF req.response_type \in DOMAIN engines[f] THEN req.response_type
    ELSE IF req.accept = None THEN "*/*" ELSE req.accept

\* Registered type k fits the source strictly better than registered type m.
FitsBetter(k, m, src) ==
    \/ FitQ(k, src)[1] > FitQ(m, src)[1]
    \/ FitQ(k, src)[1] = FitQ(m, src)[1] /\ FitQ(k, src)[2] > FitQ(m, src)[2]

SomeMatch(f) == \E k \in DOMAIN engines[f] : FitQ(k, MatchSource(f))[2] > 0

EntryReturned(f, m) ==
    /\ m \in DOMAIN engines[f]
    /\ call.ret[1].mime = m
    /\ <<call.ret[2], call.ret[3], call.ret[4]>> = engines[f][m]

BestReturned(f) ==
    LET m == call.ret[1].mime
    IN /\ EntryReturned(f, m)
       /\ \A k \in DOMAIN engines[f] : ~FitsBetter(k, m, MatchSource(f))
       /\ req.response_type \in DOMAIN engines[f] => m = req.response_type

NothingReturned(ct) == call.ret = <<ct, None, None, NoneObj>>

CustomResult(f, fmt) ==
    LET ce == custom_engines[f][fmt]
    IN <<WithCharset(ce[1]), ce[2], ce[3], ce[4]>>

\* The result without a custom format.
PlainResult(f) ==
    LET ct == matched_type(f)
    IN <<WithCharset(ct), engine_of(f, ct)[1], engine_of(f, ct)[2], engine_of(f, ct)[3]>>

\* C5: once use_custom_format(controller, fmt) succeeded in the request, the
\* lookup for that controller returns what was registered with fmt whatever
\* the Accept header, the Content-Type header or an override says; a
\* controller for which it was not called in this request, gets the result
\* without custom format.
C5_CustomFormatWins ==
    Looked =>
        IF ucf[call.f] # None
        THEN /\ ucf[call.f] \in DOMAIN custom_engines[call.f]
             /\ call.ret = CustomResult(call.f, ucf[call.f])
        ELSE call.ret = PlainResult(call.f)

\* C5 witness: a lookup with the custom format in force although the
\* response has a Content-Type header, the request an Accept header and an
\* override for the controller, and another type is registered.
C5_Witness ==
    /\ Looked
    /\ ucf[call.f] # None
    /\ resp.content_type # NoKey
    /\ req.accept # None
    /\ req.override_mapping # Unset
    /\ call.f \in DOMAIN req.override_mapping
    /\ call.ret[1].mime # resp.content_type.mime

Raised(exc) ==
    /\ call'.op = "use_custom_format"
    /\ call'.exc = exc
    /\ UNCHANGED <<req, decoVars>>

\* C6 as stated: use_custom_format with a format not registered on the
\* controller raises ValueError and leaves the request's mapping and the
\* decoration unchanged.
C6_AsStated ==
    [][(call'.op = "use_custom_format"
        /\ call'.arg \notin DOMAIN custom_engines[call'.f]) => Raised("ValueError")]_vars

\* C6 amended: the same, for a controller that already has a decoration.
C6_UnknownFormatRejected ==
    [][(call'.op = "use_custom_format"
        /\ decorated[call'.f]
        /\ call'.arg \notin DOMAIN custom_engines[call'.f]) => Raised("ValueError")]_vars

\* C6 witness: ValueError for a decorated controller that has another
\* format registered and in force in the request.
C6_Witness ==
    /\ call.op = "use_custom_format"
    /\ call.exc = "ValueError"
    /\ call.arg = "missing"
    /\ decorated[call.f]
    /\ ucf[call.f] = "special"

(***************************************************************************)
(* The hook pipeline.                                                      *)
(***************************************************************************)

\* The hook functions of the model and the exception each raises when
\* called (None: it returns).
HookFuncs == {"variable_decode", "https", "lookup"}
HookRaises(h) ==
    CASE h = "https" -> "HTTPMethodNotAllowed"
      [] h = "lookup" -> "KeyError"
      [] OTHER -> None

\* for func in funcs: func(*l, **kw): the calls made, up to and including
\* the first that raises, and the exception that ended the loop.
RECURSIVE CallAll(_, _, _)
CallAll(funcs, args, made) ==
    IF funcs = <<>> THEN [made |-> made, exc |-> None]
    ELSE LET now == Append(made, <<Head(funcs), args>>)
         IN IF HookRaises(Head(funcs)) # None
            THEN [made |-> now, exc |-> HookRaises(Head(funcs))]
            ELSE CallAll(Tail(funcs), args, now)

\* Decoration.run_hooks(tgl, hook, *l, **kw).  The try block covers the
\* lookup of config['hooks'][hook] and the calls of the system-wide hooks.
run_hooks(f, hook, args) ==
    LET sys == IF cfg_hooks = NoKey \/ hook \notin DOMAIN cfg_hooks
               THEN [made |-> <<>>, exc |-> None]
               ELSE CallAll(cfg_hooks[hook], args, <<>>)
        own == CallAll(hooks[f][hook], args, sys.made)
    IN IF sys.exc \notin {None, "KeyError"} THEN sys ELSE own

\* Decoration.register_hook(hook_name, func)
register_hook(f, hook_name, func) ==
    hooks' = [hooks EXCEPT ![f][hook_name] = Append(@, func)]

MaxHooks == 3

RECURSIVE SumLen(_, _)
SumLen(d, keys) ==
    IF keys = {} THEN 0
    ELSE LET k == CHOOSE x \in keys : TRUE IN Len(d[k]) + SumLen(d, keys \ {k})

HooksTotal ==
    SumLen(hooks["index"], HookNames) + SumLen(hooks["other"], HookNames)
    + (IF cfg_hooks = NoKey THEN 0 ELSE SumLen(cfg_hooks, DOMAIN cfg_hooks))

hookFrame == <<engines, engines_keys, default_engine, custom_engines,
               render_custom_format, req, resp, flashed, heap, conf,
               defaults_ids, regLog, ucf>>

\* _hook_decorator.__call__(func): @before_validate(hook_func) and the like.
HookDecorator(hook_name, hook_func, f) ==
    /\ HooksTotal < MaxHooks
    /\ get_decoration(f)
    /\ register_hook(f, hook_name, hook_func)
    /\ call' = Called("register_hook", f, None, None, None)
    /\ UNCHANGED <<cfg_hooks, hookFrame>>

\* The application configures a system-wide hook: config['hooks'][name].
ConfigureHook(hook_name, hook_func) ==
    /\ HooksTotal < MaxHooks
    /\ cfg_hooks' = IF cfg_hooks = NoKey THEN Put(EmptyDict, hook_name, <<hook_func>>)
                    ELSE IF hook_name \in DOMAIN cfg_hooks
                    THEN [cfg_hooks EXCEPT ![hook_name] = Append(@, hook_func)]
                    ELSE Put(cfg_hooks, hook_name, <<hook_func>>)
    /\ call' = Called("configure_hook", None, None, None, None)
    /\ UNCHANGED <<decorated, hooks, hookFrame>>

\* The dispatcher runs the hooks of the decorated controller f.
RunHooks(f, hook, args) ==
    /\ decorated[f]
    /\ LET r == run_hooks(f, hook, args)
       IN call' = Called("run_hooks", f, <<hook, args>>, r.exc, r.made)
    /\ UNCHANGED <<decorated, hooks, cfg_hooks, hookFrame>>

RegisteredNames == {"before_validate", "before_render"}

NextHooks ==
    \/ \E n \in RegisteredNames, h \in HookFuncs, f \in Funcs : HookDecorator(n, h, f)
    \/ \E n \in RegisteredNames, h \in HookFuncs : ConfigureHook(n, h)
    \/ \E f \in Funcs, n \in HookNames, a \in {"args1", "args2"} : RunHooks(f, n, a)

SpecHooks == Init /\ [][NextHooks]_vars

WithArgs(funcs, args) == [i \in DOMAIN funcs |-> <<funcs[i], args>>]

SystemWide(hook) ==
    IF cfg_hooks = NoKey \/ hook \notin DOMAIN cfg_hooks THEN <<>> ELSE cfg_hooks[hook]

\* C7: a run_hooks(hook) that returns has called every system-wide hook
\* configured for the name, in order, and then every hook registered on the
\* decoration for the name, in registration order, each once and with the
\* arguments given, and no other function.
C7_AllHooksRun ==
    (call.op = "run_hooks" /\ call.exc = None) =>
        call.ret = WithArgs(SystemWide(call.arg[1]) \o hooks[call.f][call.arg[1]],
                            call.arg[2])

(***************************************************************************)
(* The require protector.                                                  *)
(***************************************************************************)

\* The values of environ.get('repoze.who.identity') of the model: no such
\* key, an empty identity, an identity with a user.
Identities == {NoKey, [userid |-> ""], [userid |-> "editor"]}

\* Python truth of environ.get('repoze.who.identity').
Truthy(identity) == identity # NoKey /\ identity.userid # ""

\* abort(status_code, detail): the HTTP exception raised.
abort(code, detail) == <<"abort", code, detail>>

\* A flash status picked the other way round.
default_denial_status_swapped(status_int) == IF status_int = 401 THEN "error" ELSE "warning"

\* require.default_denial_handler, the flash status for response.status_int.
default_denial_status(status_int) == IF status_int = 401 THEN "warning" ELSE "error"

\* require.default_denial_handler(reason) with response.status_int as it is
\* when the handler runs: the message flashed, flash(reason, status=status),
\* and the exception of abort(response.status_int, reason).
default_denial_handler(status_int, reason) ==
    [flash |-> <<reason, default_denial_status(status_int)>>,
     exc |-> abort(status_int, reason)]

\* _BaseProtectionDecorator.__init__: denial_handler or default_denial_handler
protection_init(denial_handler) ==
    IF denial_handler # None THEN denial_handler ELSE "default_denial_handler"

\* Denial with 401 whoever asks.
denial_code_unauthorized(identity) == 401

\* require.wrap_action, the status code of a denial.
denial_code(identity) == IF Truthy(identity) THEN 403 ELSE 401

\* What the model keeps of a call of the wrapped action: the calls made of
\* the action and of the denial handler (with the response status it saw),
\* and the value returned.
Outcome(action_calls, handler_calls, value) ==
    [action_calls |-> action_calls, handler_calls |-> handler_calls, value |-> value]

\* require.wrap_action(action_, *args, **kwargs) of require(predicate,
\* denial_handler), the predicate's check_authorization raising
\* NotAuthorizedError(reason) unless reason is None.
wrap_action(denial_handler, reason, args) ==
    LET handler == protection_init(denial_handler)
        code == denial_code(req.identity)
        arg == <<reason, args, denial_handler>>
        seen == <<<<handler, reason, code>>>>
    IN IF reason = None
       THEN /\ call' = Called("wrap_action", None, arg, None,
                           Outcome(<<args>>, <<>>, <<"action", args>>))
            /\ UNCHANGED <<resp, flashed>>
       ELSE IF handler = None
       THEN /\ call' = Called("wrap_action", None, arg, abort(code, reason),
                           Outcome(<<>>, <<>>, None))
            /\ UNCHANGED <<resp, flashed>>
       ELSE /\ resp' = [resp EXCEPT !.status = code]
            /\ IF handler = "default_denial_handler"
               THEN /\ flashed' = default_denial_handler(code, reason).flash
                    /\ call' = Called("wrap_action", None, arg,
                                   default_denial_handler(code, reason).exc,
                                   Outcome(<<>>, seen, None))
               ELSE /\ call' = Called("wrap_action", None, arg, None,
                                   Outcome(<<>>, seen, <<handler, reason>>))
                    /\ UNCHANGED flashed

authFrame == <<decoVars, hooks, cfg_hooks, heap, conf, defaults_ids, regLog, ucf>>

\* A request arrives, with or without an identity in its environ.
AuthRequest(identity) ==
    /\ req' = [FreshRequest(None, None) EXCEPT !.identity = identity]
    /\ resp' = FreshResponse
    /\ flashed' = <<>>
    /\ call' = Called("request", None, None, None, None)
    /\ UNCHANGED authFrame

\* The controller sets response.status.
SetStatus(code) ==
    /\ resp' = [resp EXCEPT !.status = code]
    /\ call' = Called("set_status", None, None, None, None)
    /\ UNCHANGED <<req, flashed, authFrame>>

\* A call of an action wrapped by require(predicate, denial_handler).
WrapAction(denial_handler, reason, args) ==
    /\ wrap_action(denial_handler, reason, args)
    /\ UNCHANGED <<req, authFrame>>

\* A call of the default denial handler itself.
DefaultDenialHandler(reason) ==
    /\ flashed' = default_denial_handler(resp.status, reason).flash
    /\ call' = Called("default_denial_handler", None, <<reason, resp.status>>,
                      default_denial_handler(resp.status, reason).exc, None)
    /\ UNCHANGED <<req, resp, authFrame>>

Reasons == {"not logged in", "not allowed"}

NextAuth ==
    \/ \E i \in Identities : AuthRequest(i)
    \/ \E c \in {200, 401, 403, 404} : SetStatus(c)
    \/ \E h \in {None, "my_handler"}, r \in {None} \cup Reasons, a \in {"args1", "args2"} :
          WrapAction(h, r, a)
    \/ \E r \in Reasons : DefaultDenialHandler(r)

SpecAuth == Init /\ [][NextAuth]_vars

\* A step that is a call of the wrapped action, with what the call was
\* given and what it did.
Wrapped == call'.op = "wrap_action"
Denied == call'.arg[1] # None

\* The handler of require(predicate, denial_handler): the one passed,
\* otherwise the default one.
HandlerOf(denial_handler) ==
    IF denial_handler # None THEN denial_handler ELSE "default_denial_handler"

\* A denial with the given code: the action is not invoked, the handler is
\* called once with the reason and sees the response status set to the code,
\* and its result (an abort of the default handler, the value of another
\* handler) is the result of the call.
DeniedWith(code) ==
    LET reason == call'.arg[1]
        handler == HandlerOf(call'.arg[3])
    IN /\ call'.ret.action_calls = <<>>
       /\ call'.ret.handler_calls = <<<<handler, reason, code>>>>
       /\ resp'.status = code
       /\ IF handler = "default_denial_handler"
          THEN call'.exc = abort(code, reason)
          ELSE call'.exc = None /\ call'.ret.value = <<handler, reason>>

\* The predicate passes: the action is invoked once with the arguments, its
\* result is returned and the response is not touched.
Allowed ==
    /\ call'.ret.action_calls = <<call'.arg[2]>>
    /\ call'.ret.handler_calls = <<>>
    /\ call'.exc = None
    /\ call'.ret.value = <<"action", call'.arg[2]>>
    /\ resp' = resp

\* C1 as stated: a denial never invokes the action, has code 403 if the
\* environ carries a 'repoze.who.identity' and 401 if not, sets the response
\* status to the code before the handler is called with the reason, and
\* returns the handler's result; a pass invokes the action once with the
\* same arguments, returns its result and leaves the response status.
C1_AsStated ==
    [][Wrapped => IF Denied
                  THEN DeniedWith(IF req.identity # NoKey THEN 403 ELSE 401)
                  ELSE Allowed]_vars

\* C1 amended: the same, the code being 403 if the environ's
\* 'repoze.who.identity' is a true value and 401 if the key is missing or
\* its value is false (an empty identity).
C1_DenialRunsHandler ==
    [][Wrapped => IF Denied
                  THEN DeniedWith(IF Truthy(req.identity) THEN 403 ELSE 401)
                  ELSE Allowed]_vars

\* C1 witness: an authenticated user was denied through a handler passed to
\* require, after the response status had been something else.
C1_Witness ==
    /\ call.op = "wrap_action"
    /\ call.arg[1] # None
    /\ call.arg[3] # None
    /\ Truthy(req.identity)
    /\ resp.status = 403
    /\ call.ret.value = <<call.arg[3], call.arg[1]>>

\* The status the default denial handler read and the reason it was given,
\* when it is what ran last.
DefaultRan ==
    \/ call.op = "default_denial_handler"
    \/ /\ call.op = "wrap_action"
       /\ call.ret.handler_calls # <<>>
       /\ call.ret.handler_calls[1][1] = "default_denial_handler"

StatusRead ==
    IF call.op = "default_denial_handler" THEN call.arg[2] ELSE call.ret.handler_calls[1][3]

\* C2: the default denial handler flashes the reason with status 'warning'
\* if the HTTP status code is 401 and 'error' if it is 403, and aborts with
\* that status code and the reason.
C2_DefaultHandlerFlashesAndAborts ==
    DefaultRan =>
        /\ StatusRead = 401 => flashed = <<call.arg[1], "warning">>
        /\ StatusRead = 403 => flashed = <<call.arg[1], "error">>
        /\ call.exc = abort(StatusRead, call.arg[1])

\* C2 witness: the default handler ran for a denial of an authenticated user.
C2_Witness ==
    /\ call.op = "wrap_action"
    /\ DefaultRan
    /\ StatusRead = 403
    /\ flashed = <<call.arg[1], "error">>

(***************************************************************************)
(* The error pages configuration step.                                     *)
(***************************************************************************)

MaxLists == 3

\* The value of conf['errorpage.status_codes'].
status_codes(h, c) == h[c.status_codes]

\* 401 appended to the configured list itself.
configure_error_pages_in_place(h, c) ==
    IF c.auth_backend = None /\ ~InSeq(401, status_codes(h, c))
    THEN [heap |-> [h EXCEPT ![c.status_codes] = Append(@, 401)], conf |-> c]
    ELSE [heap |-> h, conf |-> c]

\* ErrorPagesConfigurationStep._configure_error_pages(conf, app): the lists
\* and the configuration after it.
configure_error_pages(h, c) ==
    IF c.auth_backend = None /\ ~InSeq(401, status_codes(h, c))
    THEN [heap |-> Append(h, status_codes(h, c) \o <<401>>),
          conf |-> [c EXCEPT !.status_codes = Len(h) + 1]]
    ELSE [heap |-> h, conf |-> c]

confFrame == <<decoVars, hooks, cfg_hooks, req, resp, flashed, regLog, ucf>>

\* The defaults of the step are applied again: conf.update(get_defaults()).
ApplyDefaults ==
    /\ Len(heap) < MaxLists
    /\ heap' = Append(heap, get_defaults)
    /\ defaults_ids' = defaults_ids \cup {Len(heap) + 1}
    /\ conf' = [conf EXCEPT !.status_codes = Len(heap) + 1]
    /\ call' = Called("get_defaults", None, None, None, None)
    /\ UNCHANGED confFrame

\* The application configures 'errorpage.status_codes'.
SetStatusCodes(codes) ==
    /\ Len(heap) < MaxLists
    /\ heap' = Append(heap, codes)
    /\ conf' = [conf EXCEPT !.status_codes = Len(heap) + 1]
    /\ call' = Called("set_status_codes", None, None, None, None)
    /\ UNCHANGED <<defaults_ids, confFrame>>

\* The application configures 'auth_backend'.
SetAuthBackend(backend) ==
    /\ conf' = [conf EXCEPT !.auth_backend = backend]
    /\ call' = Called("set_auth_backend", None, None, None, None)
    /\ UNCHANGED <<heap, defaults_ids, confFrame>>

\* The configurator runs the step's action.
ConfigureErrorPages ==
    /\ heap' = configure_error_pages(heap, conf).heap
    /\ conf' = configure_error_pages(heap, conf).conf
    /\ Len(heap') <= MaxLists
    /\ call' = Called("_configure_error_pages", None, None, None, None)
    /\ UNCHANGED <<defaults_ids, confFrame>>

CodeLists == {<<>>, <<401>>, <<500, 401, 404>>, <<404, 500>>}

NextErrorPages ==
    \/ ApplyDefaults
    \/ \E codes \in CodeLists : SetStatusCodes(codes)
    \/ \E b \in {None, "sqlalchemy"} : SetAuthBackend(b)
    \/ ConfigureErrorPages

SpecErrorPages == Init /\ [][NextErrorPages]_vars

Configured == call'.op = "_configure_error_pages"

\* No list that existed before the step has other contents after it.
NoListMutated == \A id \in DOMAIN heap : heap'[id] = heap[id]

DefaultsIntact == \A id \in defaults_ids : heap[id] = <<403, 404>>

C8_Step ==
    Configured =>
        LET old == status_codes(heap, conf)
            new == status_codes(heap', conf')
        IN /\ NoListMutated
           /\ conf'.auth_backend = conf.auth_backend
           /\ (conf.auth_backend = None /\ ~InSeq(401, old)) => new = old \o <<401>>
           /\ (conf.auth_backend = None /\ InSeq(401, old)) => new = old
           /\ conf.auth_backend = None => InSeq(401, new)
           /\ conf.auth_backend # None => new = old
           /\ configure_error_pages(heap', conf') = [heap |-> heap', conf |-> conf']

\* C8: after _configure_error_pages, with no auth backend the status codes
\* contain 401, appended after the codes there were only if it was absent;
\* with an auth backend the codes are unchanged; running the action again
\* changes nothing; and no list returned by get_defaults is ever changed.
C8_ErrorPagesAdd401 == []DefaultsIntact /\ [][C8_Step]_vars

\* C8 witness: 401 was appended to the defaults, in a new list.
C8_Witness ==
    /\ call.op = "_configure_error_pages"
    /\ conf.status_codes \notin defaults_ids
    /\ status_codes(heap, conf) = <<403, 404, 401>>
    /\ \E id \in defaults_ids : heap[id] = <<403, 404>>
====
